---------------------------- MODULE Spec2Model ----------------------------
(***************************************************************************)
(* A model of the bf-rs interpreter (src/src/lib.rs): parse() lexes the    *)
(* source text and optionally groups instructions, run() fills the jump    *)
(* table and walks the instruction vector over a circular byte tape.       *)
(*                                                                         *)
(* Positions (i, jump entries, stack entries, idx) are 0-based as in the   *)
(* source; TLA+ sequences are 1-based, so element j of a vector v is       *)
(* v[j + 1].                                                               *)
(*                                                                         *)
(* usize values: idx is an Int.  A value v >= 0 is the usize v; a value    *)
(* v < 0 stands for the usize 2^UsizeBits + v, which is what a release     *)
(* build (overflow checks off) leaves after a subtraction underflows.      *)
(* A debug build panics at the same place.  Which of the two the build     *)
(* does is left open until the first overflow: overflow_checks is "any"    *)
(* until an overflow wraps, and "off" afterwards.                          *)
(***************************************************************************)
EXTENDS Integers, Sequences, FiniteSets, TLC

\* ------------------------------------------------------------------ bounds
MaxSrcLen == 3
MaxTape == 2
MaxIn == 1
MaxActions == 8
\* The length of the two longest sources, runs of one command that exceed
\* what a cell can hold
LongRun == 257

\* ------------------------------------------------------- program constants
U8 == 256
UsizeBits == 64

\* The eight command symbols; every other character is a comment.  Sources
\* are enumerated over the commands and the blank; "c" stands for the other
\* comment characters and occurs in the scenarios.
Commands == {">", "<", "+", "-", "[", "]", ",", "."}
Whitespace == {" "}
Chars == Commands \cup Whitespace

\* ------------------------------------------------------------ Instructions
Counted == {"IncrementPointer", "DecrementPointer", "IncrementValue", "DecrementValue"}

IncrementPointer(x) == [op |-> "IncrementPointer", x |-> x]
DecrementPointer(x) == [op |-> "DecrementPointer", x |-> x]
IncrementValue(x) == [op |-> "IncrementValue", x |-> x]
DecrementValue(x) == [op |-> "DecrementValue", x |-> x]
BeginLoop == [op |-> "BeginLoop", x |-> 0]
EndLoop == [op |-> "EndLoop", x |-> 0]
ReadChar == [op |-> "ReadChar", x |-> 0]
PrintChar == [op |-> "PrintChar", x |-> 0]
SetZero == [op |-> "SetZero", x |-> 0]
\* Option::None of cur_instruction
None == [op |-> "None", x |-> 0]

\* ------------------------------------------------------------------- parse
\* str::trim: drop leading and trailing whitespace.
RECURSIVE TrimStart(_)
TrimStart(s) ==
    IF s # << >> /\ Head(s) \in Whitespace THEN TrimStart(Tail(s)) ELSE s

RECURSIVE TrimEnd(_)
TrimEnd(s) ==
    IF s # << >> /\ s[Len(s)] \in Whitespace
    THEN TrimEnd(SubSeq(s, 1, Len(s) - 1))
    ELSE s

Trim(s) == TrimEnd(TrimStart(s))

\* The filter_map closure: one instruction per command, nothing for the rest.
LexChar(ch) ==
    CASE ch = ">" -> << IncrementPointer(1) >>
      [] ch = "<" -> << DecrementPointer(1) >>
      [] ch = "+" -> << IncrementValue(1) >>
      [] ch = "-" -> << DecrementValue(1) >>
      [] ch = "[" -> << BeginLoop >>
      [] ch = "]" -> << EndLoop >>
      [] ch = "," -> << ReadChar >>
      [] ch = "." -> << PrintChar >>
      [] OTHER -> << >>

\* Mutant of FilterMap: map_while, which stops at the first comment.
FilterMap_MapWhile(s) ==
    LET stops == {j \in 1..Len(s) : LexChar(s[j]) = << >>}
        n == IF stops = {} THEN Len(s)
             ELSE (CHOOSE j \in stops : \A k \in stops : j <= k) - 1
    IN  [j \in 1..n |-> LexChar(s[j])[1]]

\* chars().filter_map(..).collect(): the instructions of the characters of
\* s, in order (evaluated by halves).
RECURSIVE FilterMap(_)
FilterMap(s) ==
    IF s = << >> THEN << >>
    ELSE IF Len(s) = 1 THEN LexChar(s[1])
    ELSE LET h == Len(s) \div 2
         IN  FilterMap(SubSeq(s, 1, h)) \o FilterMap(SubSeq(s, h + 1, Len(s)))

\* "Extract original instructions"
Lex(text) == FilterMap(Trim(text))

\* The arm (None, [BeginLoop, DecrementValue(1) | IncrementValue(1), EndLoop, ..])
\* Mutant of IsSetZeroPattern: only the decrementing loop is an idiom.
IsSetZeroPattern_DecOnly(rem) ==
    /\ Len(rem) >= 3
    /\ rem[1] = BeginLoop
    /\ rem[2] = DecrementValue(1)
    /\ rem[3] = EndLoop

\* Mutant of IsSetZeroPattern: the third instruction is not looked at.
IsSetZeroPattern_NoClose(rem) ==
    /\ Len(rem) >= 3
    /\ rem[1] = BeginLoop
    /\ rem[2] \in {DecrementValue(1), IncrementValue(1)}

IsSetZeroPattern(rem) ==
    /\ Len(rem) >= 3
    /\ rem[1] = BeginLoop
    /\ rem[2] \in {DecrementValue(1), IncrementValue(1)}
    /\ rem[3] = EndLoop

\* Mutant of IsSameCounted: any two instructions of one kind are merged.
IsSameCounted_AnyKind(cur, rem) ==
    /\ Len(rem) >= 1
    /\ rem[1].op = cur.op

\* The arm (Some(K(cur_val)), [K(x), ..]) for the four counted kinds K
IsSameCounted(cur, rem) ==
    /\ cur.op \in Counted
    /\ Len(rem) >= 1
    /\ rem[1].op = cur.op

\* Mutant of OptimizeStep: after an idiom the pass resumes at the idiom's
\* EndLoop, which is consumed a second time.
OptimizeStep_Overlap(cur, rem, opt) ==
    CASE cur = None /\ rem = << >> ->
            [cur |-> cur, rem |-> rem, opt |-> opt, brk |-> TRUE]
      [] cur = None /\ IsSetZeroPattern(rem) ->
            [cur |-> cur, rem |-> SubSeq(rem, 3, Len(rem)),
             opt |-> Append(opt, SetZero), brk |-> FALSE]
      [] cur = None /\ rem # << >> /\ ~IsSetZeroPattern(rem) ->
            [cur |-> rem[1], rem |-> Tail(rem), opt |-> opt, brk |-> FALSE]
      [] cur # None /\ IsSameCounted(cur, rem) ->
            [cur |-> [cur EXCEPT !.x = @ + rem[1].x], rem |-> Tail(rem),
             opt |-> opt, brk |-> FALSE]
      [] cur # None /\ ~IsSameCounted(cur, rem) ->
            [cur |-> None, rem |-> rem, opt |-> Append(opt, cur), brk |-> FALSE]

\* One iteration of the optimizer's loop, on the triple
\* (cur_instruction, remaining, optimized); brk is the `break`.
OptimizeStep(cur, rem, opt) ==
    CASE cur = None /\ rem = << >> ->
            [cur |-> cur, rem |-> rem, opt |-> opt, brk |-> TRUE]
      [] cur = None /\ IsSetZeroPattern(rem) ->
            [cur |-> cur, rem |-> SubSeq(rem, 4, Len(rem)),
             opt |-> Append(opt, SetZero), brk |-> FALSE]
      [] cur = None /\ rem # << >> /\ ~IsSetZeroPattern(rem) ->
            [cur |-> rem[1], rem |-> Tail(rem), opt |-> opt, brk |-> FALSE]
      [] cur # None /\ IsSameCounted(cur, rem) ->
            [cur |-> [cur EXCEPT !.x = @ + rem[1].x], rem |-> Tail(rem),
             opt |-> opt, brk |-> FALSE]
      [] cur # None /\ ~IsSameCounted(cur, rem) ->
            [cur |-> None, rem |-> rem, opt |-> Append(opt, cur), brk |-> FALSE]

\* The optimizer's loop, from (cur, rem, opt) to its break.
RECURSIVE Optimize(_, _, _)
Optimize(cur, rem, opt) ==
    LET r == OptimizeStep(cur, rem, opt)
    IN  IF r.brk THEN r.opt ELSE Optimize(r.cur, r.rem, r.opt)

\* parse(program, optimize, _), as a function of its arguments
parse(text, opt) ==
    IF opt THEN Optimize(None, Lex(text), << >>) ELSE Lex(text)

\* --------------------------------------------------------------------- run
InBounds(ix, mem) == ix >= 0 /\ ix < Len(mem)

\* 2^bits mod n, for n >= 1
RECURSIVE Pow2Mod(_, _)
Pow2Mod(bits, n) == IF bits = 0 THEN 1 % n ELSE (2 * Pow2Mod(bits - 1, n)) % n

\* The usize v (see the header for v < 0) modulo n, for n >= 1
UsizeRem(v, n) == IF v >= 0 THEN v % n ELSE (Pow2Mod(UsizeBits, n) + v) % n

Outcome(ix, msg, checks) == [idx |-> ix, panic |-> msg, checks |-> checks]

\* IncrementPointer(x): idx += x; idx %= memory.len();
\* the set of outcomes the build can produce.
AddPointer(ix, x, n, checks) ==
    LET sum == ix + x
        overflow == ix < 0 /\ sum >= 0
        rem(c) == IF n = 0
                  THEN Outcome(ix, "attempt to calculate the remainder with a divisor of zero", c)
                  ELSE Outcome(UsizeRem(sum, n), "", c)
    IN  IF overflow
        THEN {rem("off")} \cup
             (IF checks = "any"
              THEN {Outcome(ix, "attempt to add with overflow", checks)}
              ELSE {})
        ELSE {rem(checks)}

\* DecrementPointer(x):
\* if x > idx { idx = memory.len() - (x - idx) } else { idx -= x }
SubPointer(ix, x, n, checks) ==
    IF ix >= 0 /\ x > ix
    THEN IF x - ix > n
         THEN {Outcome(n - (x - ix), "", "off")} \cup
              (IF checks = "any"
               THEN {Outcome(ix, "attempt to subtract with overflow", checks)}
               ELSE {})
         ELSE {Outcome(n - (x - ix), "", checks)}
    ELSE {Outcome(ix - x, "", checks)}

\* Mutant of WrappingAdd: the count is clamped to a u8, not truncated.
WrappingAdd_Clamped(v, x) == (v + (IF x > U8 - 1 THEN U8 - 1 ELSE x)) % U8

\* u8::wrapping_add(x as u8), u8::wrapping_sub(x as u8)
WrappingAdd(v, x) == (v + (x % U8)) % U8
WrappingSub(v, x) == (v - (x % U8)) % U8

\* print!("{}", char::from(b)): the UTF-8 encoding of U+0000..U+00FF
PrintBytes(b) == IF b < 128 THEN << b >> ELSE << 192 + (b \div 64), 128 + (b % 64) >>

\* Mutant of BeginLoopTarget: the loop is skipped on a non-zero cell and
\* entered on a zero one.
BeginLoopTarget_Inverted(cell, cursor, jmp) ==
    IF cell # 0 THEN jmp[cursor + 1] ELSE cursor

\* Mutant of BeginLoopTarget: the jump lands before the EndLoop, which is
\* then dispatched as a step of its own.
BeginLoopTarget_BeforeEnd(cell, cursor, jmp) ==
    IF cell = 0 THEN jmp[cursor + 1] - 1 ELSE cursor

\* Mutant of EndLoopTarget: the jump lands before the BeginLoop, which is
\* then dispatched again.
EndLoopTarget_BeforeBegin(cell, cursor, jmp) ==
    IF cell # 0 THEN jmp[cursor + 1] - 1 ELSE cursor

\* The cursor after BeginLoop / EndLoop, before the common i += 1
BeginLoopTarget(cell, cursor, jmp) == IF cell = 0 THEN jmp[cursor + 1] ELSE cursor
EndLoopTarget(cell, cursor, jmp) == IF cell # 0 THEN jmp[cursor + 1] ELSE cursor

\* Mutant of CountAction: an instruction counts as many times as it repeats.
CountAction_Repeat(n, instruction) ==
    n + (IF instruction.x > 1 THEN instruction.x ELSE 1)

\* actions += 1, once per dispatched instruction
CountAction(n, instruction) == n + 1

\* Mutant of PopAndLink: an EndLoop met with an empty stack is skipped.
PopAndLink_Unchecked(stk, jmp, pos) ==
    IF stk = << >>
    THEN [ok |-> TRUE, stack |-> stk, jump |-> jmp]
    ELSE LET index == stk[Len(stk)]
         IN  [ok |-> TRUE,
              stack |-> SubSeq(stk, 1, Len(stk) - 1),
              jump |-> [jmp EXCEPT ![pos + 1] = index, ![index + 1] = pos]]

\* Mutant of PopAndLink: the oldest open BeginLoop is taken, not the newest.
PopAndLink_Oldest(stk, jmp, pos) ==
    IF stk = << >>
    THEN [ok |-> FALSE, stack |-> stk, jump |-> jmp]
    ELSE LET index == stk[1]
         IN  [ok |-> TRUE,
              stack |-> Tail(stk),
              jump |-> [jmp EXCEPT ![pos + 1] = index, ![index + 1] = pos]]

\* The EndLoop arm of the jump-filling loop: stack.pop().expect(..), then
\* both jump entries.  ok = FALSE is the panic of expect on an empty stack.
PopAndLink(stk, jmp, pos) ==
    IF stk = << >>
    THEN [ok |-> FALSE, stack |-> stk, jump |-> jmp]
    ELSE LET index == stk[Len(stk)]
         IN  [ok |-> TRUE,
              stack |-> SubSeq(stk, 1, Len(stk) - 1),
              jump |-> [jmp EXCEPT ![pos + 1] = index, ![index + 1] = pos]]

\* ------------------------------------------------------------------- state
\* Results of stdin().bytes().next(): a byte, or an I/O error.
Ok(ch) == [ok |-> TRUE, ch |-> ch]
IOErr == [ok |-> FALSE, ch |-> 0]
InBytes == {7}
ReadResults == {Ok(b) : b \in InBytes} \cup {IOErr}
InitCells == {0, 255}

RECURSIVE SeqsUpTo(_, _)
SeqsUpTo(S, n) ==
    IF n = 0 THEN {<< >>}
    ELSE LET shorter == SeqsUpTo(S, n - 1)
         IN  shorter \cup {Append(s, e) : s \in {t \in shorter : Len(t) = n - 1}, e \in S}

\* A source of n characters ch
Repeat(ch, n) == [j \in 1..n |-> ch]

\* The scenarios of the specification's testable properties, programs with
\* nested and sequential loops, and the two long runs.
Scenarios ==
    {<<"+", "+", "+", "+", "[", "-", "]">>,
     <<">", "+", "<", "-">>,
     <<"[", "[", "]", "]", "[", "]">>,
     <<"+", "+", "+", "+", "[", "-", "-", "]">>,
     <<"-", "[", "[", "+", "]", "]">>,
     <<"<", "<", "<">>,
     <<"+", "[", "]">>,
     <<"[", "c", "-", "]">>,
     <<" ", "+", "c", "+", " ">>,
     <<"+", "+", ".", ".">>,
     <<"[", "[", "+", "]">>,
     Repeat("+", LongRun),
     Repeat("-", LongRun)}

Sources == SeqsUpTo(Chars, MaxSrcLen) \cup Scenarios

Range(s) == {s[j] : j \in 1..Len(s)}

\* The tapes a run starts from: every length up to MaxTape, all cells alike.
Tapes == {[j \in 1..n |-> c] : n \in 0..MaxTape, c \in InitCells}
StartPointers(mem) == IF Len(mem) = 0 THEN {0} ELSE 0..(Len(mem) - 1)
Inputs(text) ==
    IF "," \in Range(text) THEN SeqsUpTo(ReadResults, MaxIn) ELSE {<< >>}

VARIABLES
    program,          \* parse's source text
    optimize,         \* parse's optimize flag
    instructions,     \* parse: the original instructions
    remaining,        \* parse: instructions left to check
    cur_instruction,  \* parse: the instruction being grouped, or None
    optimized,        \* parse: the grouped instructions
    inst,             \* run's instruction vector
    memory,           \* run's tape
    idx,              \* run's pointer
    actions,          \* run: how many instructions were performed
    i,                \* run: index of the current instruction
    stack,            \* run: indexes of the open BeginLoops
    jump,             \* run: the jump table
    scan,             \* run: the index of the jump-filling for loop
    stdin,            \* what stdin still holds
    stdout,           \* the bytes printed
    pc,               \* where the program is
    panic,            \* the panic message, "" when none
    ret,              \* run's return value, << >> before it returns
    overflow_checks,  \* "any" until an overflow wrapped, "off" afterwards
    start,            \* the tape, pointer and stdin both runs start from
    first             \* how the run of the unoptimized program ended

vars == << program, optimize, instructions, remaining, cur_instruction, optimized,
           inst, memory, idx, actions, i, stack, jump, scan, stdin, stdout, pc,
           panic, ret, overflow_checks, start, first >>

parseVars == << instructions, remaining, cur_instruction, optimized >>
runVars == << inst, memory, idx, actions, i, stack, jump, scan, ret >>
ioVars == << stdin, stdout >>
callVars == << program, optimize, start, first >>

NotRun == [pc |-> "none", panic |-> "", memory |-> << >>, idx |-> 0,
           stdin |-> << >>, stdout |-> << >>, ret |-> << >>]

Init ==
    /\ program \in Sources
    /\ optimize = FALSE
    /\ \E mem \in Tapes :
         \E p \in StartPointers(mem) :
           \E input \in Inputs(program) :
             start = [memory |-> mem, idx |-> p, stdin |-> input]
    /\ instructions = << >>
    /\ remaining = << >>
    /\ cur_instruction = None
    /\ optimized = << >>
    /\ inst = << >>
    /\ memory = start.memory
    /\ idx = start.idx
    /\ actions = 0
    /\ i = 0
    /\ stack = << >>
    /\ jump = << >>
    /\ scan = 0
    /\ stdin = start.stdin
    /\ stdout = << >>
    /\ pc = "parse"
    /\ panic = ""
    /\ ret = << >>
    /\ overflow_checks = "any"
    /\ first = NotRun


\* ----------------------------------------------------------- parse, steps
\* parse(): the original instructions; without optimize they are returned
\* and handed to run().
ParseLex ==
    /\ pc = "parse"
    /\ instructions' = Lex(program)
    /\ IF optimize
       THEN /\ remaining' = instructions'
            /\ cur_instruction' = None
            /\ optimized' = << >>
            /\ pc' = "optimize"
            /\ inst' = inst
       ELSE /\ UNCHANGED << remaining, cur_instruction, optimized >>
            /\ inst' = instructions'
            /\ pc' = "run"
    /\ UNCHANGED << memory, idx, actions, i, stack, jump, scan, ret >>
    /\ UNCHANGED << ioVars, callVars, panic, overflow_checks >>

\* One iteration of the optimizer's loop; its break returns optimized,
\* which is handed to run().
ParseOptimize ==
    /\ pc = "optimize"
    /\ LET r == OptimizeStep(cur_instruction, remaining, optimized)
       IN  /\ cur_instruction' = r.cur
           /\ remaining' = r.rem
           /\ optimized' = r.opt
           /\ IF r.brk
              THEN inst' = optimized /\ pc' = "run"
              ELSE inst' = inst /\ pc' = pc
    /\ UNCHANGED << instructions, memory, idx, actions, i, stack, jump, scan, ret >>
    /\ UNCHANGED << ioVars, callVars, panic, overflow_checks >>

\* ------------------------------------------------------------- run, steps
\* run(): the locals before the jump-filling loop.
RunEntry ==
    /\ pc = "run"
    /\ actions' = 0
    /\ i' = 0
    /\ stack' = << >>
    /\ jump' = [j \in 1..Len(inst) |-> 0]
    /\ scan' = 0
    /\ pc' = "resolve"
    /\ UNCHANGED << inst, memory, idx, ret >>
    /\ UNCHANGED << parseVars, ioVars, callVars, panic, overflow_checks >>

\* One iteration of the jump-filling loop.
ResolveStep ==
    /\ pc = "resolve"
    /\ scan < Len(inst)
    /\ LET instruction == inst[scan + 1]
       IN  CASE instruction = BeginLoop ->
                  /\ stack' = Append(stack, scan)
                  /\ scan' = scan + 1
                  /\ UNCHANGED << jump, pc, panic >>
             [] instruction = EndLoop ->
                  LET r == PopAndLink(stack, jump, scan)
                  IN  IF r.ok
                      THEN /\ stack' = r.stack
                           /\ jump' = r.jump
                           /\ scan' = scan + 1
                           /\ UNCHANGED << pc, panic >>
                      ELSE /\ pc' = "panic"
                           /\ panic' = "Could not find matching '['"
                           /\ UNCHANGED << stack, jump, scan >>
             [] OTHER ->
                  /\ scan' = scan + 1
                  /\ UNCHANGED << stack, jump, pc, panic >>
    /\ UNCHANGED << inst, memory, idx, actions, i, ret >>
    /\ UNCHANGED << parseVars, ioVars, callVars, overflow_checks >>

\* The jump-filling loop is over: on to the dispatch loop.
ResolveDone ==
    /\ pc = "resolve"
    /\ scan = Len(inst)
    /\ pc' = "exec"
    /\ UNCHANGED << runVars, parseVars, ioVars, callVars, panic, overflow_checks >>

\* The dispatch loop is at an instruction of kind op.
At(op) ==
    /\ pc = "exec"
    /\ i < Len(inst)
    /\ actions < MaxActions
    /\ inst[i + 1].op = op

\* Mutant of Advance: the i += 1 is missing.
Advance_NoStep(cursor) ==
    /\ actions' = CountAction(actions, inst[i + 1])
    /\ i' = cursor
    /\ UNCHANGED << pc, panic >>

\* actions += 1; i += 1; after an arm that left the cursor at `cursor`.
Advance(cursor) ==
    /\ actions' = CountAction(actions, inst[i + 1])
    /\ i' = cursor + 1
    /\ UNCHANGED << pc, panic >>

Panic(msg) ==
    /\ pc' = "panic"
    /\ panic' = msg
    /\ UNCHANGED << actions, i >>

OutOfBounds == "index out of bounds"

DoIncrementPointer ==
    /\ At("IncrementPointer")
    /\ \E r \in AddPointer(idx, inst[i + 1].x, Len(memory), overflow_checks) :
         /\ overflow_checks' = r.checks
         /\ IF r.panic # ""
            THEN Panic(r.panic) /\ idx' = idx
            ELSE Advance(i) /\ idx' = r.idx
    /\ UNCHANGED << inst, memory, stack, jump, scan, ret >>
    /\ UNCHANGED << parseVars, ioVars, callVars >>

DoDecrementPointer ==
    /\ At("DecrementPointer")
    /\ \E r \in SubPointer(idx, inst[i + 1].x, Len(memory), overflow_checks) :
         /\ overflow_checks' = r.checks
         /\ IF r.panic # ""
            THEN Panic(r.panic) /\ idx' = idx
            ELSE Advance(i) /\ idx' = r.idx
    /\ UNCHANGED << inst, memory, stack, jump, scan, ret >>
    /\ UNCHANGED << parseVars, ioVars, callVars >>

\* An arm that only writes memory[idx]
SetCell(value) ==
    /\ IF InBounds(idx, memory)
       THEN Advance(i) /\ memory' = [memory EXCEPT ![idx + 1] = value]
       ELSE Panic(OutOfBounds) /\ memory' = memory
    /\ UNCHANGED << inst, idx, stack, jump, scan, ret >>
    /\ UNCHANGED << parseVars, ioVars, callVars, overflow_checks >>

DoIncrementValue ==
    /\ At("IncrementValue")
    /\ SetCell(WrappingAdd(memory[idx + 1], inst[i + 1].x))

DoDecrementValue ==
    /\ At("DecrementValue")
    /\ SetCell(WrappingSub(memory[idx + 1], inst[i + 1].x))

DoSetZero ==
    /\ At("SetZero")
    /\ SetCell(0)

DoBeginLoop ==
    /\ At("BeginLoop")
    /\ IF InBounds(idx, memory)
       THEN Advance(BeginLoopTarget(memory[idx + 1], i, jump))
       ELSE Panic(OutOfBounds)
    /\ UNCHANGED << inst, memory, idx, stack, jump, scan, ret >>
    /\ UNCHANGED << parseVars, ioVars, callVars, overflow_checks >>

DoEndLoop ==
    /\ At("EndLoop")
    /\ IF InBounds(idx, memory)
       THEN Advance(EndLoopTarget(memory[idx + 1], i, jump))
       ELSE Panic(OutOfBounds)
    /\ UNCHANGED << inst, memory, idx, stack, jump, scan, ret >>
    /\ UNCHANGED << parseVars, ioVars, callVars, overflow_checks >>

\* io::stdin().bytes().next().expect(..): None at the end of stdin panics;
\* Some(Err(_)) leaves the cell alone; Some(Ok(ch)) is stored.
DoReadChar ==
    /\ At("ReadChar")
    /\ IF stdin = << >>
       THEN /\ Panic("Could not read from stdin")
            /\ UNCHANGED << memory, stdin >>
       ELSE /\ stdin' = Tail(stdin)
            /\ IF ~Head(stdin).ok
               THEN Advance(i) /\ memory' = memory
               ELSE IF InBounds(idx, memory)
                    THEN /\ Advance(i)
                         /\ memory' = [memory EXCEPT ![idx + 1] = Head(stdin).ch]
                    ELSE Panic(OutOfBounds) /\ memory' = memory
    /\ UNCHANGED << inst, idx, stack, jump, scan, ret, stdout >>
    /\ UNCHANGED << parseVars, callVars, overflow_checks >>

DoPrintChar ==
    /\ At("PrintChar")
    /\ IF InBounds(idx, memory)
       THEN Advance(i) /\ stdout' = stdout \o PrintBytes(memory[idx + 1])
       ELSE Panic(OutOfBounds) /\ stdout' = stdout
    /\ UNCHANGED << inst, memory, idx, stack, jump, scan, ret, stdin >>
    /\ UNCHANGED << parseVars, callVars, overflow_checks >>

\* while i < inst.len() is false: (actions, idx) is returned.
Return ==
    /\ pc = "exec"
    /\ i >= Len(inst)
    /\ ret' = << actions, idx >>
    /\ pc' = "done"
    /\ UNCHANGED << inst, memory, idx, actions, i, stack, jump, scan >>
    /\ UNCHANGED << parseVars, ioVars, callVars, panic, overflow_checks >>

\* ------------------------------------------------------------ the two runs
\* The run has stopped: it returned, it panicked, or it was cut off after
\* MaxActions instructions.
CutOff == pc = "exec" /\ i < Len(inst) /\ actions >= MaxActions
Stopped == pc \in {"done", "panic"} \/ CutOff

\* The same program is parsed with optimize and run again on the same tape,
\* pointer and stdin, by the same build.
RunOptimized ==
    /\ Stopped
    /\ ~optimize
    /\ first' = [pc |-> IF CutOff THEN "cutoff" ELSE pc, panic |-> panic,
                 memory |-> memory, idx |-> idx, stdin |-> stdin,
                 stdout |-> stdout, ret |-> ret]
    /\ optimize' = TRUE
    /\ instructions' = << >>
    /\ remaining' = << >>
    /\ cur_instruction' = None
    /\ optimized' = << >>
    /\ inst' = << >>
    /\ memory' = start.memory
    /\ idx' = start.idx
    /\ actions' = 0
    /\ i' = 0
    /\ stack' = << >>
    /\ jump' = << >>
    /\ scan' = 0
    /\ stdin' = start.stdin
    /\ stdout' = << >>
    /\ pc' = "parse"
    /\ panic' = ""
    /\ ret' = << >>
    /\ UNCHANGED << program, start, overflow_checks >>

Next ==
    \/ ParseLex
    \/ ParseOptimize
    \/ RunEntry
    \/ ResolveStep
    \/ ResolveDone
    \/ DoIncrementPointer
    \/ DoDecrementPointer
    \/ DoIncrementValue
    \/ DoDecrementValue
    \/ DoSetZero
    \/ DoBeginLoop
    \/ DoEndLoop
    \/ DoReadChar
    \/ DoPrintChar
    \/ Return
    \/ RunOptimized

Spec == Init /\ [][Next]_vars


\* ================================================================== claims
\* Bracket structure of an instruction vector, by counting (positions are
\* 1-based here): Net(v, a, b) is the number of BeginLoops minus the number
\* of EndLoops among v[a..b].
Net(v, a, b) ==
    Cardinality({j \in a..b : v[j] = BeginLoop})
    - Cardinality({j \in a..b : v[j] = EndLoop})

Closers(v, b) == {e \in (b + 1)..Len(v) : Net(v, b, e) = 0}
HasUnmatchedBegin(v) == \E b \in 1..Len(v) : v[b] = BeginLoop /\ Closers(v, b) = {}
HasUnmatchedEnd(v) == \E e \in 1..Len(v) : Net(v, 1, e) < 0
WellBracketed(v) == ~HasUnmatchedEnd(v) /\ Net(v, 1, Len(v)) = 0
\* The EndLoop closing the BeginLoop at b
MatchOf(v, b) == CHOOSE e \in Closers(v, b) : \A f \in Closers(v, b) : e <= f
NoBeginLoop(v) == \A j \in 1..Len(v) : v[j] # BeginLoop

OverflowPanics == {"attempt to add with overflow", "attempt to subtract with overflow"}

\* C1 (as claimed): on a tape of length >= 1, the run of the optimized
\* program ends as the run of the unoptimized program did: both return or
\* both fail, and when they return, with the same tape, the same pointer and
\* the same output.  (Runs cut off at MaxActions are left out.)
C1_OptimizationTransparency ==
    (/\ optimize
     /\ Len(start.memory) >= 1
     /\ first.pc \in {"done", "panic"}
     /\ pc \in {"done", "panic"})
    => /\ pc = first.pc
       /\ pc = "done" => /\ memory = first.memory
                         /\ idx = first.idx
                         /\ stdout = first.stdout

\* C2 (as claimed): on a tape of length >= 1 the pointer is always a valid
\* index, and run never fails on an out-of-bounds access or an arithmetic
\* overflow.
C2_PointerInRange ==
    Len(memory) >= 1 =>
        /\ InBounds(idx, memory)
        /\ panic \notin OverflowPanics \cup {OutOfBounds}

\* C3 (as claimed): on a tape of length N >= 1 with the pointer at p,
\* IncrementPointer(c) leaves the pointer at (p + c) mod N and
\* DecrementPointer(c) leaves it at (p - c) mod N, for every c >= 1.
C3_PointerMovementModular ==
    [][(/\ pc = "exec" /\ i < Len(inst) /\ actions < MaxActions
        /\ Len(memory) >= 1
        /\ InBounds(idx, memory))
       => /\ inst[i + 1].op = "IncrementPointer"
             => pc' = "exec" /\ idx' = (idx + inst[i + 1].x) % Len(memory)
          /\ inst[i + 1].op = "DecrementPointer"
             => pc' = "exec" /\ idx' = (idx - inst[i + 1].x) % Len(memory)]_vars

\* C4 (as claimed): a program with a BeginLoop that no EndLoop closes never
\* gets past the jump-filling loop: run fails there and performs nothing.
\* (Stated for the tapes of length >= 1; the empty tape is C8's.)
C4_UnmatchedOpenRejected ==
    (HasUnmatchedBegin(inst) /\ Len(memory) >= 1)
    => pc \notin {"exec", "done"} /\ actions = 0

\* C5: when the instruction vector holds an EndLoop with no open BeginLoop,
\* run never enters the dispatch loop: the jump-filling loop cannot run to
\* its end, the only way out is the panic of stack.pop().expect(..), and the
\* tape, the pointer, stdin and stdout are as run received them.
C5_UnmatchedCloseBeforeExecution ==
    (HasUnmatchedEnd(inst) /\ pc \notin {"parse", "optimize"})
    => /\ pc \in {"run", "resolve", "panic"}
       /\ pc = "resolve" => scan < Len(inst)
       /\ pc = "panic" => panic = "Could not find matching '['"
       /\ memory = start.memory
       /\ idx = start.idx
       /\ stdin = start.stdin
       /\ stdout = << >>
       /\ actions = 0
       /\ i = 0
       /\ ret = << >>

\* C5 witness: the jump-filling loop panicked on an unmatched EndLoop that
\* follows a ReadChar, with a byte waiting in stdin and a non-empty tape.
C5_Witness ==
    /\ pc = "panic"
    /\ panic = "Could not find matching '['"
    /\ HasUnmatchedEnd(inst)
    /\ inst[1] = ReadChar
    /\ stdin # << >>
    /\ Len(memory) >= 1


\* The dispatch loop is about to perform an instruction.
Dispatching == pc = "exec" /\ i < Len(inst) /\ actions < MaxActions

\* C6 (as claimed): ReadChar with nothing left in stdin is no error: the
\* tape and the pointer stay as they are and the loop goes on with the next
\* instruction; with a byte in stdin, that byte is consumed and stored in
\* the current cell.
C6_ExhaustedInputNotError ==
    [][(Dispatching /\ inst[i + 1] = ReadChar /\ InBounds(idx, memory))
       => IF stdin = << >>
          THEN /\ pc' = "exec"
               /\ memory' = memory
               /\ idx' = idx
               /\ i' = i + 1
          ELSE /\ stdin' = Tail(stdin)
               /\ Head(stdin).ok => memory' = [memory EXCEPT ![idx + 1] = Head(stdin).ch]
               /\ idx' = idx]_vars

C8_ZeroLengthTapeRejected ==
    Len(memory) = 0 => pc \notin {"exec", "done"}

\* C9: for a well-bracketed program, once the jump-filling loop is over,
\* every BeginLoop at b has jump[b] = e and jump[e] = b for the EndLoop at
\* e > b that closes it by bracket counting; every EndLoop is the partner of
\* the BeginLoop its entry names; and two pairs are disjoint or nested.
C9_JumpTableSymmetry ==
    (pc \in {"exec", "done"} /\ WellBracketed(inst))
    => LET Begins == {b \in 1..Len(inst) : inst[b] = BeginLoop}
           Ends == {e \in 1..Len(inst) : inst[e] = EndLoop}
           J(p) == jump[p] + 1
       IN  /\ Len(jump) = Len(inst)
           /\ stack = << >>
           /\ \A b \in Begins :
                /\ J(b) = MatchOf(inst, b)
                /\ J(b) > b
                /\ J(b) \in Ends
                /\ J(J(b)) = b
           /\ \A e \in Ends :
                /\ J(e) \in Begins
                /\ J(e) < e
                /\ J(J(e)) = e
           /\ \A b1, b2 \in Begins :
                b1 < b2 => J(b1) < b2 \/ J(b2) < J(b1)
           /\ Cardinality(Begins) = Cardinality(Ends)

\* C9 witness: the table of a program with a loop inside a loop, and a
\* second loop after them.
C9_Witness ==
    /\ pc = "exec"
    /\ WellBracketed(inst)
    /\ \E b1, b2, b3 \in 1..Len(inst) :
         /\ b1 < b2 /\ b2 < b3
         /\ inst[b1] = BeginLoop /\ inst[b2] = BeginLoop /\ inst[b3] = BeginLoop
         /\ jump[b2] < jump[b1]
         /\ jump[b1] + 1 < b3

\* C10: the counter is 0 when run starts, never decreases during a run,
\* goes up by exactly 1 with every instruction the dispatch loop performs
\* (whatever its repeat count, and whether or not a jump is taken), stays
\* as it is when the loop ends, and is the first component of what run
\* returns; for a program without loops that is the number of instructions.
C10_ActionCounter ==
    [][/\ pc = "run" => actions' = 0
       /\ optimize' = optimize => actions' >= actions
       /\ (pc = "exec" /\ pc' = "exec") => actions' = actions + 1
       /\ (pc = "exec" /\ pc' = "panic") => actions' = actions
       /\ (pc = "exec" /\ pc' = "done")
          => /\ actions' = actions
             /\ ret' = << actions, idx >>
             /\ NoBeginLoop(inst) => ret'[1] = Len(inst)]_vars

\* C10 witness: run returned the count of a program that holds an
\* instruction with a repeat count above 1 and a loop whose EndLoop did not
\* jump.
C10_Witness ==
    /\ pc = "done"
    /\ ret = << actions, idx >>
    /\ optimize
    /\ actions > Len(inst)
    /\ \E j \in 1..Len(inst) : inst[j].x > 1
    /\ \E j \in 1..Len(inst) : inst[j] = EndLoop


\* C11: with the current cell holding v, IncrementValue(c) leaves
\* (v + c) mod 256 and DecrementValue(c) leaves (v - c) mod 256 in it, for
\* every count c (also c > 255); the other cells and the pointer stay, and
\* every cell is in 0..255 before and after.
C11_CellArithmeticWraps ==
    [][(Dispatching /\ InBounds(idx, memory))
       => LET c == inst[i + 1].x
              v == memory[idx + 1]
          IN  /\ inst[i + 1].op = "IncrementValue"
                 => /\ pc' = "exec"
                    /\ idx' = idx
                    /\ memory' = [memory EXCEPT ![idx + 1] = (v + c) % 256]
              /\ inst[i + 1].op = "DecrementValue"
                 => /\ pc' = "exec"
                    /\ idx' = idx
                    /\ memory' = [memory EXCEPT ![idx + 1] = (v - c) % 256]
              /\ \A j \in 1..Len(memory) : memory[j] \in 0..255
              /\ \A j \in 1..Len(memory') : memory'[j] \in 0..255]_vars

\* C11 witness: a DecrementValue with a count above 255 ran on a cell that
\* held 0.
C11_Witness ==
    /\ pc = "done"
    /\ InBounds(idx, memory)
    /\ Len(inst) = 1
    /\ inst[1].op = "DecrementValue"
    /\ inst[1].x > 255
    /\ start.memory[idx + 1] = 0
    /\ memory[idx + 1] = 256 - (inst[1].x - 256)


\* The source text without its comments
IsCommand(ch) == ch \in Commands
CommandsOnly(text) == SelectSeq(text, IsCommand)

\* C12: a source with comments among its commands is parsed, with and
\* without optimize, to the Program of the same source without them.
C12_CommentsInsignificant ==
    (pc = "run" /\ program # CommandsOnly(program))
    => inst = parse(CommandsOnly(program), optimize)

\* C12 witness: `[c-]`, a comment inside the three characters of the
\* zeroing loop, parsed with optimize to one SetZero.
C12_Witness ==
    /\ pc = "run"
    /\ optimize
    /\ program = <<"[", "c", "-", "]">>
    /\ inst = << SetZero >>


\* The BeginLoop that the EndLoop at e closes (1-based positions)
Openers(v, e) ==
    {b \in 1..(e - 1) : v[b] = BeginLoop /\ Closers(v, b) # {} /\ MatchOf(v, b) = e}
OpenerOf(v, e) == CHOOSE b \in Openers(v, e) : TRUE

\* The dispatch loop is about to perform the EndLoop at the 0-based
\* position i, matched with the BeginLoop at the 0-based position
\* OpenerOf(inst, i + 1) - 1, with the pointer on a cell.
AtEndLoop ==
    /\ Dispatching
    /\ inst[i + 1] = EndLoop
    /\ InBounds(idx, memory)
    /\ Openers(inst, i + 1) # {}

\* C13 (as claimed): an EndLoop dispatched on a non-zero cell is followed by
\* the dispatch of its BeginLoop at b (the loop test is entered again); on a
\* zero cell it is followed by the instruction at e + 1.
C13_LoopEndReentersTest ==
    [][AtEndLoop
       => i' = IF memory[idx + 1] # 0 THEN OpenerOf(inst, i + 1) - 1 ELSE i + 1]_vars

\* C13 (amended): an EndLoop dispatched on a non-zero cell is followed by
\* the instruction at b + 1, the one after its BeginLoop, which is not
\* dispatched again; on a zero cell it is followed by the instruction at
\* e + 1.  The step leaves the tape and the pointer alone.
C13_LoopEndSemantics ==
    [][AtEndLoop
       => /\ pc' = "exec"
          /\ memory' = memory
          /\ idx' = idx
          /\ i' = IF memory[idx + 1] # 0
                  THEN (OpenerOf(inst, i + 1) - 1) + 1
                  ELSE i + 1]_vars

\* C13 witness: the cursor is right after a BeginLoop, on a non-zero cell,
\* after more dispatches than a first pass takes to get there: an EndLoop
\* jumped back, over a loop body that is not empty.
C13_Witness ==
    /\ pc = "exec"
    /\ WellBracketed(inst)
    /\ i >= 1 /\ i < Len(inst)
    /\ inst[i] = BeginLoop
    /\ inst[i + 1] # EndLoop
    /\ actions > i
    /\ InBounds(idx, memory)
    /\ memory[idx + 1] # 0

\* C14: a BeginLoop at b, matched with the EndLoop at e, dispatched on a
\* zero cell is followed by the instruction at e + 1 in the same step (the
\* EndLoop is no step of its own); on a non-zero cell it is followed by the
\* instruction at b + 1.  The step leaves the tape and the pointer alone.
C14_LoopBeginSemantics ==
    [][(/\ Dispatching
        /\ inst[i + 1] = BeginLoop
        /\ InBounds(idx, memory)
        /\ Closers(inst, i + 1) # {})
       => /\ pc' = "exec"
          /\ memory' = memory
          /\ idx' = idx
          /\ actions' = actions + 1
          /\ i' = IF memory[idx + 1] = 0
                  THEN (MatchOf(inst, i + 1) - 1) + 1
                  ELSE i + 1]_vars

\* C14 witness: the cursor is right after an EndLoop, two or more positions
\* past its BeginLoop, after fewer dispatches than instructions lie before
\* it: a BeginLoop skipped a loop body that is not empty.
C14_Witness ==
    /\ pc = "exec"
    /\ i >= 3
    /\ inst[i] = EndLoop
    /\ inst[i - 1] # BeginLoop
    /\ actions < i
    /\ Len(memory) >= 1


\* ------------------------------------------------------ the optimizer pass
\* parse() has returned the optimized instructions to run()
Optimized == pc = "run" /\ optimize

\* The positions of v where the idiom BeginLoop, -1 or +1, EndLoop starts
IdiomStarts(v) ==
    {j \in 1..(Len(v) - 2) :
        /\ v[j].op = "BeginLoop"
        /\ v[j + 1].op \in {"DecrementValue", "IncrementValue"} /\ v[j + 1].x = 1
        /\ v[j + 2].op = "EndLoop"}

\* The positions of v that hold an instruction of the kind op
Holding(v, op) == {j \in 1..Len(v) : v[j].op = op}

\* The sum of the counts of the instructions of v of the kind op
Total(v, op) ==
    Cardinality({p \in Holding(v, op) \X (1..Len(instructions)) : p[2] <= v[p[1]].x})

\* C15: with optimization, every BeginLoop, DecrementValue(1) or
\* IncrementValue(1), EndLoop of the raw instructions becomes one SetZero
\* and nothing else does, so the optimized instructions hold as many SetZero
\* as the raw ones hold idioms and no idiom; `++++[-]` gives
\* IncrementValue(4), SetZero.
C15_IdiomRecognition ==
    Optimized
    => /\ IdiomStarts(inst) = {}
       /\ Cardinality(Holding(inst, "SetZero")) = Cardinality(IdiomStarts(instructions))
       /\ Holding(instructions, "SetZero") = {}
       /\ program = <<"+", "+", "+", "+", "[", "-", "]">>
          => inst = << IncrementValue(4), SetZero >>

\* C15 witness: an idiom after a run that was merged
C15_Witness ==
    Optimized /\ inst = << IncrementValue(4), SetZero >>

\* The raw instructions of the kind op that an idiom consumed
InIdioms(v, op) ==
    Cardinality({j \in IdiomStarts(v) : op \in {v[j].op, v[j + 1].op, v[j + 2].op}})

\* C16: with optimization, every counted instruction has a count >= 1, no
\* two adjacent instructions are of the same counted kind, the counts of
\* each counted kind add up to the raw instructions of that kind outside the
\* idioms, and BeginLoop, EndLoop, ReadChar, PrintChar and SetZero carry no
\* count and are as many as in the raw instructions (outside the idioms).
C16_RunLengthMerging ==
    Optimized
    => /\ \A j \in 1..Len(inst) :
            IF inst[j].op \in Counted THEN inst[j].x >= 1 ELSE inst[j].x = 0
       /\ \A j \in 1..(Len(inst) - 1) :
            inst[j].op \in Counted => inst[j + 1].op # inst[j].op
       /\ \A op \in Counted :
            Total(inst, op) = Cardinality(Holding(instructions, op)) - InIdioms(instructions, op)
       /\ \A op \in {"BeginLoop", "EndLoop", "ReadChar", "PrintChar"} :
            Cardinality(Holding(inst, op))
                = Cardinality(Holding(instructions, op)) - InIdioms(instructions, op)

\* C16 witness: a run of two merged, two equal uncounted instructions kept
C16_Witness ==
    Optimized /\ inst = << IncrementValue(2), PrintChar, PrintChar >>


\* The raw instructions that the optimized instruction o stands for
Width(o) ==
    IF o.op \in Counted THEN o.x ELSE IF o = SetZero THEN 3 ELSE 1

\* The raw instructions that v[1..j-1] stand for together
Before(v, j) ==
    Cardinality({p \in (1..(j - 1)) \X (1..Len(instructions)) : p[2] <= Width(v[p[1]])})

\* The raw instruction r can be the u-th one that o stands for
Unit(o, u, r) ==
    IF o.op \in Counted THEN r = [o EXCEPT !.x = 1]
    ELSE IF o = SetZero
         THEN \/ u = 1 /\ r = BeginLoop
              \/ u = 2 /\ r \in {DecrementValue(1), IncrementValue(1)}
              \/ u = 3 /\ r = EndLoop
         ELSE r = o

\* Expanding v gives raw, up to the -1 or +1 inside each idiom
ExpandsTo(v, raw) ==
    /\ \A j \in 1..Len(v) : Width(v[j]) \in 1..Len(raw)
    /\ Before(v, Len(v) + 1) = Len(raw)
    /\ \A j \in 1..Len(v) : \A u \in 1..Width(v[j]) :
          Unit(v[j], u, raw[Before(v, j) + u])

\* What the optimizer's loop has left to do
Variant == 2 * Len(remaining) + (IF cur_instruction = None THEN 0 ELSE 1)

\* C17: every iteration of the optimizer's loop either breaks, with nothing
\* left, or leaves less to do, so the pass halts; and the instructions it
\* returns expand (count c into c units, SetZero into its loop, any other
\* into itself) to a sequence as long as the raw one and equal to it up to
\* the -1 or +1 inside each idiom.
C17_OptimizerGreedy ==
    [][pc = "optimize"
       => /\ \/ Variant' < Variant /\ pc' = "optimize"
             \/ Variant = 0 /\ pc' = "run"
          /\ instructions' = instructions
          /\ pc' = "run" => ExpandsTo(inst', instructions')]_vars

\* C17 witness: the pass returned fewer instructions than it was given,
\* among them a merged run and a SetZero.
C17_Witness ==
    /\ Optimized
    /\ Len(inst) < Len(instructions)
    /\ Holding(inst, "SetZero") # {}
    /\ \E j \in 1..Len(inst) : inst[j].x >= 2

\* C18: in a well-bracketed program, a BeginLoop at b or an EndLoop at e of
\* a matched pair (b, e) moves the cursor to e + 1 only on a zero cell and
\* to b + 1 only on a non-zero cell, and whenever the cursor is at b + 1 the
\* pointer is on a non-zero cell.
C18_LoopExitZeroCell ==
    [][/\ (/\ Dispatching
           /\ WellBracketed(inst)
           /\ inst[i + 1] \in {BeginLoop, EndLoop}
           /\ pc' = "exec")
          => LET b == IF inst[i + 1] = BeginLoop THEN i ELSE OpenerOf(inst, i + 1) - 1
                 e == IF inst[i + 1] = EndLoop THEN i ELSE MatchOf(inst, i + 1) - 1
             IN  /\ InBounds(idx, memory)
                 /\ i' \in {e + 1, b + 1}
                 /\ i' = e + 1 => memory[idx + 1] = 0
                 /\ i' = b + 1 => memory[idx + 1] # 0
       /\ (/\ pc' = "exec"
           /\ WellBracketed(inst')
           /\ i' \in 1..Len(inst')
           /\ inst'[i'] = BeginLoop)
          => /\ InBounds(idx', memory')
             /\ memory'[idx' + 1] # 0]_vars

\* C18 witness: the cursor is right after an EndLoop that has jumped back
\* before: the loop has iterated and then been left, on a zero cell.
C18_Witness ==
    /\ pc = "exec"
    /\ WellBracketed(inst)
    /\ i >= 2
    /\ inst[i] = EndLoop
    /\ actions > i
    /\ InBounds(idx, memory)
    /\ memory[idx + 1] = 0

\* C19: the optimized instructions are well-bracketed, have an unmatched
\* EndLoop, or have an unmatched BeginLoop, exactly when the raw
\* instructions are, have one, or have one.
C19_BracketStructurePreserved ==
    Optimized
    => /\ WellBracketed(inst) <=> WellBracketed(instructions)
       /\ HasUnmatchedEnd(inst) <=> HasUnmatchedEnd(instructions)
       /\ HasUnmatchedBegin(inst) <=> HasUnmatchedBegin(instructions)

\* C19 witness: an idiom was replaced inside a BeginLoop that is not closed
C19_Witness ==
    /\ Optimized
    /\ Holding(inst, "SetZero") # {}
    /\ HasUnmatchedBegin(inst)
    /\ ~HasUnmatchedEnd(inst)

=============================================================================
